---- MODULE Spec2Model ----
(***************************************************************************)
(* Model of actix-framed/src/route.rs: the route builder, the route        *)
(* descriptor (FramedRoute), the service factory (FramedRouteFactory) and  *)
(* the per-connection dispatcher (FramedRouteService) whose call() wraps   *)
(* the handler's future in a `then` that logs an error and reports Ok(()). *)
(*                                                                         *)
(* Options are sequences of length 0 or 1 (<<>> is "not there").           *)
(***************************************************************************)
EXTENDS Integers, Sequences, FiniteSets, TLC

VARIABLES
    builder,   \* Option<FramedRouteBuilder>: [pattern, methods]
    route,     \* Option<FramedRoute>: [handler, pattern, methods]
    factory,   \* Option<FramedRouteFactory>: [handler, methods]
    svcs,      \* the FramedRouteService values made so far: [handler, methods]
    inits,     \* the results new_service returned, in order: "Ok" or "Err"
    futs,      \* the futures call() returned, in call order
    log,       \* the logging sink: the lines written by error!()
    ready,     \* the answers of poll_ready the caller holds, one per service
               \* at most: the latest [svc, async] that no call on that
               \* service has followed yet
    hist       \* history of the build phase (what the caller asked for)

vars == <<builder, route, factory, svcs, inits, futs, log, ready, hist>>

----------------------------------------------------------------------------
(* Bounds of the model *)

MaxMethods == 2     \* method() calls per route (builder and descriptor together)
MaxServices == 2    \* activations of the factory
MaxCalls == 2       \* call() invocations over all services

----------------------------------------------------------------------------
(* Input domains *)

\* http::Method values the starts seed and method() is given
Methods == {"GET", "POST", "PUT", "DELETE"}

\* path arguments
Paths == {"/x", "/users"}

\* requests handed to call(): only the verb is modelled; PATCH is a verb no
\* route of the model lists
Requests == {[verb |-> "GET"], [verb |-> "PATCH"]}

\* Handler outcomes: Result<(), E>, E displayable
OkOut == [tag |-> "Ok", text |-> ""]
ErrOut(t) == [tag |-> "Err", text |-> t]

(* A handler is an FnMut + Clone closure.  kind says what its body does, n  *)
(* is the closure's captured state: the number of times it has been        *)
(* invoked.  rc says where that state lives: in the closure itself (FALSE: *)
(* a clone has its own copy) or behind an Rc the closure captured (TRUE: a *)
(* clone holds the same Rc, so all clones read and advance one counter).   *)
(*   "ok"   : returns a future that later resolves to Ok(())               *)
(*   "err"  : returns the Result Err("boom") (ready at once)               *)
(*   "flip" : returns a future resolving to Ok(()) on its 1st, 3rd, ...    *)
(*            invocation and to Err("odd") on its 2nd, 4th, ...            *)
HandlerKinds == {"ok", "err", "flip"}
Handlers ==
    [kind : HandlerKinds, n : {0}, rc : {FALSE}]
    \cup {[kind |-> "flip", n |-> 0, rc |-> TRUE]}

\* what a handler invocation returns: an IntoFuture value; ready says
\* whether its outcome is available at once (a Result) or later (a future)
HandlerRet(h, req) ==
    CASE h.kind = "ok"   -> [ready |-> FALSE, out |-> OkOut]
      [] h.kind = "err"  -> [ready |-> TRUE,  out |-> ErrOut("boom")]
      [] h.kind = "flip" -> [ready |-> FALSE,
                             out |-> IF h.n % 2 = 0 THEN OkOut ELSE ErrOut("odd")]

\* (self.handler)(req): FnMut, so the closure's state advances
Invoke(h, req) == [handler |-> [h EXCEPT !.n = @ + 1], ret |-> HandlerRet(h, req)]

(* F::clone / Vec<Method>::clone: a copy of the value.  The copy of a       *)
(* handler with rc holds the same Rc as the original; Synced keeps such    *)
(* copies in step.                                                         *)
clone(x) == x

\* the handler copy h once a clone of the same closure has become c
Synced(h, c) == IF c.rc THEN c ELSE h

\* &str -> String
to_string(s) == s

----------------------------------------------------------------------------
(* Route builder *)

FramedRouteBuilder_new(p) == [pattern |-> to_string(p), methods |-> <<>>]

\* a method() that keeps a verb only once
FramedRouteBuilder_method_dedup(b, m) ==
    IF \E i \in 1..Len(b.methods) : b.methods[i] = m
    THEN b
    ELSE [b EXCEPT !.methods = Append(@, m)]

\* a method() that overwrites the list with the verb given last
FramedRouteBuilder_method_replace(b, m) == [b EXCEPT !.methods = <<m>>]

FramedRouteBuilder_method(b, m) == [b EXCEPT !.methods = Append(@, m)]

build(p) == FramedRouteBuilder_new(p)
get(p) == FramedRouteBuilder_method(FramedRouteBuilder_new(p), "GET")
post(p) == FramedRouteBuilder_method(FramedRouteBuilder_new(p), "POST")
put(p) == FramedRouteBuilder_method(FramedRouteBuilder_new(p), "PUT")
delete(p) == FramedRouteBuilder_method(FramedRouteBuilder_new(p), "DELETE")

to(b, h) == [handler |-> h, pattern |-> b.pattern, methods |-> b.methods]

(* Route descriptor *)

FramedRoute_new(p, h) == [handler |-> h, pattern |-> to_string(p), methods |-> <<>>]

FramedRoute_method(r, m) == [r EXCEPT !.methods = Append(@, m)]

path(r) == r.pattern

create(r) == [handler |-> r.handler, methods |-> r.methods]

(* Service factory *)

\* a new_service() that gives the service a fresh method list
new_service_empty(f) ==
    [tag |-> "Ok", val |-> [handler |-> clone(f.handler), methods |-> <<>>]]

new_service(f) ==
    [tag |-> "Ok",
     val |-> [handler |-> clone(f.handler), methods |-> clone(f.methods)]]

----------------------------------------------------------------------------
(* Service *)

\* a poll_ready() that holds back once the service has dispatched
poll_ready_busy(svc) ==
    [tag |-> "Ok", async |-> IF svc.handler.n > 0 THEN "NotReady" ELSE "Ready"]

\* Poll<(), Error>
poll_ready(svc) == [tag |-> "Ok", async |-> "Ready"]

\* IntoFuture::into_future: a Result is a future that is ready at once
into_future(ret) == ret

\* a call that turns away a verb its non-empty method list does not hold
call_filtering(svc, req) ==
    IF svc.methods # <<>> /\ ~\E i \in 1..Len(svc.methods) : svc.methods[i] = req.verb
    THEN [service |-> svc,
          future  |-> [inner |-> [ready |-> TRUE, out |-> ErrOut("method not allowed")],
                       st |-> "First"]]
    ELSE LET inv == Invoke(svc.handler, req) IN
         [service |-> [svc EXCEPT !.handler = inv.handler],
          future  |-> [inner |-> into_future(inv.ret), st |-> "First"]]

\* a call that puts the handler invocation off to the future's first poll
call_lazy(svc, req) ==
    [service |-> svc,
     future  |-> [inner |-> into_future(HandlerRet(svc.handler, req)), st |-> "First"]]

(* call: invokes the handler (advancing the service's own closure), and    *)
(* boxes handler_future.then(closure); the returned future is in           *)
(* Chain::First until the handler's future resolves.                       *)
call(svc, req) ==
    LET inv == Invoke(svc.handler, req) IN
    [service |-> [svc EXCEPT !.handler = inv.handler],
     future  |-> [inner |-> into_future(inv.ret), st |-> "First"]]

\* format!("Error in request handler: {}", e) as a sequence of pieces
Display(e) == e.text
Format(e) == <<"Error in request handler: ", Display(e)>>
Contains(msg, t) == \E i \in 1..Len(msg) : msg[i] = t

\* a closure that passes the handler's error on after logging it
then_closure_propagate(out) ==
    [lines |-> IF out.tag = "Err"
               THEN <<[level |-> "error", msg |-> Format(out)]>>
               ELSE <<>>,
     ret   |-> IF out.tag = "Err" THEN "Err" ELSE "Ok"]

\* a closure that logs whatever the outcome
then_closure_log_always(out) ==
    [lines |-> <<[level |-> "error", msg |-> Format(out)]>>, ret |-> "Ok"]

(* The closure given to then: logs a handler error, then Ok(()).           *)
(* Returns the lines it wrote and the value it returned.                   *)
then_closure(out) ==
    [lines |-> IF out.tag = "Err"
               THEN <<[level |-> "error", msg |-> Format(out)]>>
               ELSE <<>>,
     ret   |-> "Ok"]

\* a future that reports completion without waiting for the handler's future
then_poll_early(fut) ==
    IF ~fut.inner.ready
    THEN [st |-> fut.st, res |-> "ReadyOk", lines |-> <<>>]
    ELSE [st |-> "Done", res |-> "ReadyOk",
          lines |-> IF fut.inner.out.tag = "Err"
                    THEN <<[level |-> "error", msg |-> Format(fut.inner.out)]>>
                    ELSE <<>>]

\* a future that never completes
then_poll_stuck(fut) == [st |-> fut.st, res |-> "NotReady", lines |-> <<>>]

(* Then::poll (futures 0.1 Chain): NotReady while the handler's future is  *)
(* pending; once it has resolved, run the closure and poll its Ok(()),     *)
(* which is ready at once.                                                 *)
(* Returns the chain's new state, the value handed to the poller and the   *)
(* lines written.  A chain that has completed panics when polled again     *)
(* ("cannot poll twice") and writes nothing.                               *)
then_poll(fut) ==
    IF fut.st = "Done"
    THEN [st |-> "Done", res |-> "Panic", lines |-> <<>>]
    ELSE IF ~fut.inner.ready
    THEN [st |-> fut.st, res |-> "NotReady", lines |-> <<>>]
    ELSE LET c == then_closure(fut.inner.out) IN
         [st |-> "Done", res |-> IF c.ret = "Ok" THEN "ReadyOk" ELSE "Err",
          lines |-> c.lines]

\* a drop that leaves the chain running (a detached task)
drop_future_detached(fut) == fut

\* dropping the Box<Future>: the chain and the handler's future are released
drop_future(fut) == [fut EXCEPT !.st = "Released"]

----------------------------------------------------------------------------
(* History of the build phase *)

NoHist == [start |-> "none", path |-> "", bverbs |-> <<>>, rverbs |-> <<>>,
           handler |-> <<>>, created |-> <<>>]

\* the verbs a start seeds the builder with
Seed(start) ==
    CASE start = "get"    -> <<"GET">>
      [] start = "post"   -> <<"POST">>
      [] start = "put"    -> <<"PUT">>
      [] start = "delete" -> <<"DELETE">>
      [] OTHER            -> <<>>

MethodCalls == Len(hist.bverbs) + Len(hist.rverbs)

----------------------------------------------------------------------------
(* Actions *)

Init ==
    /\ builder = <<>>
    /\ route = <<>>
    /\ factory = <<>>
    /\ svcs = <<>>
    /\ inits = <<>>
    /\ futs = <<>>
    /\ log = <<>>
    /\ ready = {}
    /\ hist = NoHist

Fresh == hist.start = "none"

Build ==
    /\ Fresh
    /\ \E p \in Paths :
        /\ builder' = <<build(p)>>
        /\ hist' = [hist EXCEPT !.start = "build", !.path = p]
    /\ UNCHANGED <<route, factory, svcs, inits, futs, log, ready>>

Get ==
    /\ Fresh
    /\ \E p \in Paths :
        /\ builder' = <<get(p)>>
        /\ hist' = [hist EXCEPT !.start = "get", !.path = p]
    /\ UNCHANGED <<route, factory, svcs, inits, futs, log, ready>>

Post ==
    /\ Fresh
    /\ \E p \in Paths :
        /\ builder' = <<post(p)>>
        /\ hist' = [hist EXCEPT !.start = "post", !.path = p]
    /\ UNCHANGED <<route, factory, svcs, inits, futs, log, ready>>

Put ==
    /\ Fresh
    /\ \E p \in Paths :
        /\ builder' = <<put(p)>>
        /\ hist' = [hist EXCEPT !.start = "put", !.path = p]
    /\ UNCHANGED <<route, factory, svcs, inits, futs, log, ready>>

Delete ==
    /\ Fresh
    /\ \E p \in Paths :
        /\ builder' = <<delete(p)>>
        /\ hist' = [hist EXCEPT !.start = "delete", !.path = p]
    /\ UNCHANGED <<route, factory, svcs, inits, futs, log, ready>>

BuilderMethod ==
    /\ builder # <<>>
    /\ MethodCalls < MaxMethods
    /\ \E m \in Methods :
        /\ builder' = <<FramedRouteBuilder_method(builder[1], m)>>
        /\ hist' = [hist EXCEPT !.bverbs = Append(@, m)]
    /\ UNCHANGED <<route, factory, svcs, inits, futs, log, ready>>

To ==
    /\ builder # <<>>
    /\ \E h \in Handlers :
        /\ route' = <<to(builder[1], h)>>
        /\ hist' = [hist EXCEPT !.handler = <<h>>]
    /\ builder' = <<>>
    /\ UNCHANGED <<factory, svcs, inits, futs, log, ready>>

RouteNew ==
    /\ Fresh
    /\ \E p \in Paths, h \in Handlers :
        /\ route' = <<FramedRoute_new(p, h)>>
        /\ hist' = [hist EXCEPT !.start = "new", !.path = p, !.handler = <<h>>]
    /\ UNCHANGED <<builder, factory, svcs, inits, futs, log, ready>>

RouteMethod ==
    /\ route # <<>>
    /\ MethodCalls < MaxMethods
    /\ \E m \in Methods :
        /\ route' = <<FramedRoute_method(route[1], m)>>
        /\ hist' = [hist EXCEPT !.rverbs = Append(@, m)]
    /\ UNCHANGED <<builder, factory, svcs, inits, futs, log, ready>>

Create ==
    /\ route # <<>>
    /\ factory' = <<create(route[1])>>
    /\ route' = <<>>
    /\ hist' = [hist EXCEPT !.created = <<create(route[1])>>]
    /\ UNCHANGED <<builder, svcs, inits, futs, log, ready>>

NewService ==
    /\ factory # <<>>
    /\ Len(inits) < MaxServices
    /\ LET r == new_service(factory[1]) IN
        /\ inits' = Append(inits, r.tag)
        /\ svcs' = IF r.tag = "Ok" THEN Append(svcs, r.val) ELSE svcs
    /\ UNCHANGED <<builder, route, factory, futs, log, hist, ready>>

(* The futures of a service that its caller still waits for: neither seen *)
(* complete nor dropped by it.                                             *)
Awaited(s) ==
    {f \in 1..Len(futs) : futs[f].svc = s /\ ~futs[f].dropped /\ futs[f].res # "ReadyOk"}

\* a call whose handler state is shared by the services made so far,
\* whatever the handler
CallShared ==
    /\ Len(futs) < MaxCalls
    /\ \E s \in 1..Len(svcs), req \in Requests :
        /\ LET c == call(svcs[s], req) IN
            /\ svcs' = [t \in 1..Len(svcs) |->
                          [svcs[t] EXCEPT !.handler = c.service.handler]]
            /\ factory' = <<[factory[1] EXCEPT !.handler = Synced(@, c.service.handler)]>>
            /\ futs' = Append(futs, [svc |-> s, req |-> req, inner |-> c.future.inner,
                                     st |-> c.future.st, res |-> "None",
                                     dropped |-> FALSE, overlap |-> FALSE])
        /\ ready' = {a \in ready : a.svc # s}
    /\ UNCHANGED <<builder, route, inits, log, hist>>

(* poll_ready on a service: the answer goes to the caller, nothing else    *)
(* changes.  Control is back with the caller before any call; the caller   *)
(* may hold the answers of several services at once.                       *)
PollReady ==
    /\ \E s \in 1..Len(svcs) :
        ready' = {a \in ready : a.svc # s}
                    \cup {[svc |-> s, async |-> poll_ready(svcs[s]).async]}
    /\ UNCHANGED <<builder, route, factory, svcs, inits, futs, log, hist>>

(* call on service s.  It does not ask whether poll_ready was called.  The *)
(* handler of s advances; when its state is behind an Rc, so does every    *)
(* clone: the factory's and the other services'.  A future records,        *)
(* beside the chain call() built (inner, st):                              *)
(*   svc, req : the service and the request of the call                    *)
(*   res      : the last value poll handed to the caller                   *)
(*   dropped  : whether the caller has dropped the future                  *)
(*   overlap  : whether the caller was still waiting for an earlier future *)
(*              of the same service when it made the call                  *)
CallOn(s, req) ==
    /\ Len(futs) < MaxCalls
    /\ LET c == call(svcs[s], req) IN
        /\ svcs' = [t \in 1..Len(svcs) |->
                      IF t = s THEN c.service
                      ELSE [svcs[t] EXCEPT !.handler = Synced(@, c.service.handler)]]
        /\ factory' = <<[factory[1] EXCEPT !.handler = Synced(@, c.service.handler)]>>
        /\ futs' = Append(futs, [svc |-> s, req |-> req, inner |-> c.future.inner,
                                 st |-> c.future.st, res |-> "None",
                                 dropped |-> FALSE, overlap |-> Awaited(s) # {}])
    /\ ready' = {a \in ready : a.svc # s}
    /\ UNCHANGED <<builder, route, inits, log, hist>>

\* a call by any caller
Call == \E s \in 1..Len(svcs), req \in Requests : CallOn(s, req)

\* a call by a caller that follows the Service protocol: poll_ready on the
\* service answered Ready and no call on it has been made since
AdmittedCall ==
    \E s \in 1..Len(svcs), req \in Requests :
        /\ [svc |-> s, async |-> "Ready"] \in ready
        /\ CallOn(s, req)

\* the handler's own future resolves (its outcome becomes available)
Resolve ==
    \E f \in 1..Len(futs) :
        /\ futs[f].st = "First"
        /\ ~futs[f].inner.ready
        /\ futs' = [futs EXCEPT ![f].inner.ready = TRUE]
        /\ UNCHANGED <<builder, route, factory, svcs, inits, log, hist, ready>>

\* the executor polls a future whose chain is alive and has not completed
\* (by the Future contract a completed future is not polled again)
PollFut(f) ==
    /\ f \in 1..Len(futs)
    /\ futs[f].st = "First"
    /\ LET p == then_poll(futs[f]) IN
        /\ futs' = [futs EXCEPT ![f].st = p.st, ![f].res = p.res]
        /\ log' = log \o [i \in 1..Len(p.lines) |->
                            [level |-> p.lines[i].level, msg |-> p.lines[i].msg,
                             call |-> f]]
    /\ UNCHANGED <<builder, route, factory, svcs, inits, hist, ready>>

Poll == \E f \in 1..Len(futs) : PollFut(f)

\* the caller drops a future that has not completed
Drop ==
    \E f \in 1..Len(futs) :
        /\ futs[f].st = "First"
        /\ ~futs[f].dropped
        /\ futs' = [futs EXCEPT ![f] = [drop_future(futs[f]) EXCEPT !.dropped = TRUE]]
        /\ UNCHANGED <<builder, route, factory, svcs, inits, log, hist, ready>>

BuildNext ==
    \/ Build \/ Get \/ Post \/ Put \/ Delete
    \/ BuilderMethod \/ To \/ RouteNew \/ RouteMethod \/ Create
    \/ NewService

\* The build phase: from nothing to a factory and its activations
BuildSpec == Init /\ [][BuildNext]_vars

(* The serve phase starts from a factory the build phase yields.  A        *)
(* script is a build phase in the form hist records it.                    *)
StartBuilder(kind, p) ==
    CASE kind = "get"    -> get(p)
      [] kind = "post"   -> post(p)
      [] kind = "put"    -> put(p)
      [] kind = "delete" -> delete(p)
      [] OTHER           -> build(p)

RECURSIVE BuilderMethods(_, _)
BuilderMethods(b, vs) ==
    IF vs = <<>> THEN b
    ELSE BuilderMethods(FramedRouteBuilder_method(b, Head(vs)), Tail(vs))

RECURSIVE RouteMethods(_, _)
RouteMethods(r, vs) ==
    IF vs = <<>> THEN r
    ELSE RouteMethods(FramedRoute_method(r, Head(vs)), Tail(vs))

ScriptFactory(sc) ==
    LET h == sc.handler[1]
        r == IF sc.start = "new"
             THEN FramedRoute_new(sc.path, h)
             ELSE to(BuilderMethods(StartBuilder(sc.start, sc.path), sc.bverbs), h)
    IN create(RouteMethods(r, sc.rverbs))

\* get("/x").to(h); build("/users").method(GET).method(POST).to(h);
\* FramedRoute::new("/x", h); the Rc-state handler rides the first script
ServeScripts ==
    { [NoHist EXCEPT !.start = "get", !.path = "/x", !.handler = <<h>>] :
        h \in Handlers }
    \cup { [NoHist EXCEPT !.start = "build", !.path = "/users",
                          !.bverbs = <<"GET", "POST">>, !.handler = <<h>>] :
        h \in {x \in Handlers : ~x.rc} }
    \cup { [NoHist EXCEPT !.start = "new", !.path = "/x", !.handler = <<h>>] :
        h \in {x \in Handlers : ~x.rc} }

ServeInit ==
    /\ builder = <<>>
    /\ route = <<>>
    /\ svcs = <<>>
    /\ inits = <<>>
    /\ futs = <<>>
    /\ log = <<>>
    /\ ready = {}
    /\ \E sc \in ServeScripts :
        /\ factory = <<ScriptFactory(sc)>>
        /\ hist = [sc EXCEPT !.created = <<ScriptFactory(sc)>>]

ServeNext == NewService \/ Call \/ Resolve \/ Poll \/ Drop

ServeSpec == ServeInit /\ [][ServeNext]_vars

(* The serve phase of a caller that follows the Service protocol, for the  *)
(* route get("/x").to(h), h the handler that fails at once or the one that *)
(* succeeds and fails in turn, its state behind an Rc.                     *)
ReadyInit ==
    /\ ServeInit
    /\ hist.start = "get"
    /\ hist.handler[1].kind = "err" \/ hist.handler[1].rc

ReadyNext == NewService \/ PollReady \/ AdmittedCall \/ Resolve \/ Poll \/ Drop

ReadySpec == ReadyInit /\ [][ReadyNext]_vars

(* A future that is not dropped keeps being polled.  Liveness is checked   *)
(* on the serve phase of the route get("/x").to(h).                        *)
FairServeInit == ServeInit /\ hist.start = "get"

FairServeSpec ==
    FairServeInit /\ [][ServeNext]_vars /\ \A f \in 1..MaxCalls : WF_vars(PollFut(f))

----------------------------------------------------------------------------
(* Properties *)

FutIds == 1..Len(futs)
SvcIds == 1..Len(svcs)

\* the lines the sink holds for call f
LinesOf(f) == {i \in 1..Len(log) : log[i].call = f}

\* the dispatches of service s in flight: the chain is alive and not complete
InFlight(s) == {f \in FutIds : futs[f].svc = s /\ futs[f].st = "First"}

\* the calls made on service s, and those made on f's service before f
CallsOn(s) == {f \in FutIds : futs[f].svc = s}
CallsBefore(f) == {g \in 1..(f - 1) : futs[g].svc = futs[f].svc}

\* whether the handler's state is behind an Rc, shared by its clones
SharedState == factory[1].handler.rc

\* the handler invocations that the handler of service s has seen, and those
\* that the handler call f invoked had seen before: with state of its own,
\* the calls on that service; with shared state, the calls on any service
SeenBy(s) == IF SharedState THEN Len(futs) ELSE Cardinality(CallsOn(s))
SeenBefore(f) == IF SharedState THEN f - 1 ELSE Cardinality(CallsBefore(f))

\* the handler create() put into the factory
Handler0 == hist.created[1].handler

\* the method list the builder held when to() was called
AtTo == Seed(hist.start) \o hist.bverbs

(* C1: a call whose handler outcome is an error E completes with the unit  *)
(* success value, never an error; when its completion is reported the      *)
(* sink holds exactly one line for it, at error severity, containing E's   *)
(* text; and no call ever has more than one line.                          *)
C1_ErrorLoggedOnceThenOk ==
    \A f \in FutIds :
        /\ Cardinality(LinesOf(f)) <= 1
        /\ futs[f].res # "Err"
        /\ (futs[f].st = "Done" /\ futs[f].inner.out.tag = "Err") =>
            /\ futs[f].res = "ReadyOk"
            /\ Cardinality(LinesOf(f)) = 1
            /\ \A i \in LinesOf(f) :
                /\ log[i].level = "error"
                /\ Contains(log[i].msg, futs[f].inner.out.text)

\* a call with an error outcome has completed
C1_Witness ==
    \E f \in FutIds :
        /\ futs[f].st = "Done"
        /\ futs[f].inner.out = ErrOut("boom")
        /\ futs[f].res = "ReadyOk"

(* C2: a call whose handler outcome is success completes with the unit     *)
(* success value and no line is ever written for it.                       *)
C2_SuccessNotLogged ==
    \A f \in FutIds :
        futs[f].inner.out.tag = "Ok" =>
            /\ LinesOf(f) = {}
            /\ futs[f].st = "Done" => futs[f].res = "ReadyOk"

\* a call with a success outcome has completed, beside one that was logged
C2_Witness ==
    \E f \in FutIds :
        /\ futs[f].st = "Done"
        /\ futs[f].inner.out.tag = "Ok"
        /\ futs[f].res = "ReadyOk"
        /\ log # <<>>

(* C3: poll_ready reports Ready on every service in every reachable state: *)
(* before any call, with a call in flight, after a drop, after completion; *)
(* so does every answer a caller got.                                      *)
C3_AlwaysReady ==
    /\ \A s \in SvcIds : poll_ready(svcs[s]) = [tag |-> "Ok", async |-> "Ready"]
    /\ \A a \in ready : a.async = "Ready"

\* a service with a completed or dropped call and another call in flight
\* has answered poll_ready since that call was made, and the caller holds
\* the answer of another service too
C3_Witness ==
    \E s \in SvcIds : \E f, g \in CallsOn(s) :
        /\ futs[f].st \in {"Done", "Released"}
        /\ futs[g].st = "First"
        /\ [svc |-> s, async |-> "Ready"] \in ready
        /\ \E a \in ready : a.svc # s

(* C4 as claimed: the services of one factory share no handler state.  A   *)
(* service's handler is the factory's advanced by that service's own calls *)
(* only, the outcome of a call is the one the handler gives after the      *)
(* earlier calls on the same service only, and the factory stays as        *)
(* create() made it.                                                       *)
C4_ServicesIndependent ==
    /\ factory = hist.created
    /\ \A s \in SvcIds :
        svcs[s].handler = [Handler0 EXCEPT !.n = @ + Cardinality(CallsOn(s))]
    /\ \A f \in FutIds :
        futs[f].inner.out =
            HandlerRet([Handler0 EXCEPT !.n = @ + Cardinality(CallsBefore(f))],
                       futs[f].req).out

(* C4 amended: each service holds its own clone of the handler and of the  *)
(* method list.  For a handler that holds its state by value the claim     *)
(* stands as made.  For a handler that holds its state behind an Rc the    *)
(* clones share it: the factory's and every service's handler have seen    *)
(* every call made on any service, and the outcome of a call is the one    *)
(* the handler gives after all earlier calls.  The method lists are never  *)
(* affected.                                                               *)
C4_IndependentUnlessRc ==
    /\ factory[1].methods = hist.created[1].methods
    /\ \A s \in SvcIds : svcs[s].methods = factory[1].methods
    /\ ~SharedState => C4_ServicesIndependent
    /\ SharedState =>
        /\ factory[1].handler = [Handler0 EXCEPT !.n = @ + Len(futs)]
        /\ \A s \in SvcIds : svcs[s].handler = factory[1].handler
        /\ \A f \in FutIds :
            futs[f].inner.out =
                HandlerRet([Handler0 EXCEPT !.n = @ + f - 1], futs[f].req).out

\* two services of a stateful by-value handler, one call on each: both get
\* the outcome of a first invocation
C4_Witness ==
    /\ Len(svcs) >= 2
    /\ factory[1].handler.kind = "flip"
    /\ ~SharedState
    /\ \E f, g \in FutIds :
        /\ futs[f].svc = 1 /\ futs[g].svc = 2
        /\ futs[f].inner.out = OkOut /\ futs[g].inner.out = OkOut
        /\ futs[f].req = futs[g].req

(* C5 as claimed: with call issued only after poll_ready reported Ready,   *)
(* at most one dispatch is in flight on a service.                         *)
C5_OneInFlightByReady ==
    \A s \in SvcIds : Cardinality(InFlight(s)) <= 1

(* C5 amended: at most one dispatch is in flight on a service whose caller *)
(* made every call only after the future of each earlier call on that      *)
(* service had reported completion or been dropped.                        *)
C5_OneInFlightBySerialCaller ==
    \A s \in SvcIds :
        (\A f \in CallsOn(s) : ~futs[f].overlap) => Cardinality(InFlight(s)) <= 1

\* a service called twice by a caller that waited, its second call in flight
C5_Witness ==
    \E s \in SvcIds :
        /\ Cardinality(CallsOn(s)) >= 2
        /\ \A f \in CallsOn(s) : ~futs[f].overlap
        /\ Cardinality(InFlight(s)) = 1

(* C6: after to() the method list is frozen: the descriptor's and the      *)
(* factory's list is the one the builder held at to().  The code's         *)
(* FramedRoute::method appends to the descriptor's list after to(), and    *)
(* create() carries the appended verbs into the factory.                   *)
C6_FrozenAfterTo ==
    hist.start # "new" =>
        /\ route # <<>> => route[1].methods = AtTo
        /\ factory # <<>> => factory[1].methods = AtTo

(* C7: the builder, and the descriptor to() returns, hold the path given   *)
(* at the start and the method list seed, v1, ..., vn in call order; the   *)
(* seed is empty for build and the one verb of get, post, put, delete.     *)
C7_BuilderAccumulates ==
    /\ builder # <<>> =>
        /\ builder[1].pattern = hist.path
        /\ builder[1].methods = Seed(hist.start) \o hist.bverbs
    /\ (route # <<>> /\ hist.start # "new" /\ hist.rverbs = <<>>) =>
        /\ path(route[1]) = hist.path
        /\ route[1].methods = Seed(hist.start) \o hist.bverbs
        /\ route[1].handler = hist.handler[1]

\* to() has returned the descriptor of delete(p).method(POST).method(POST)
C7_Witness ==
    /\ route # <<>>
    /\ hist.start = "delete"
    /\ hist.bverbs = <<"POST", "POST">>
    /\ hist.rverbs = <<>>
    /\ path(route[1]) = "/users"

(* C8: new_service always succeeds and leaves the factory as it is: an     *)
(* activation changes neither the factory nor the services made before,    *)
(* and the service it makes holds the factory's handler and method list.   *)
(* The factory's method list stays the one create() gave it, every service *)
(* carries it, and so does the factory's handler unless its state is       *)
(* behind an Rc that service calls advance.                                *)
C8_ActivationPure ==
    /\ [](/\ \A i \in 1..Len(inits) : inits[i] = "Ok"
          /\ Len(svcs) = Len(inits)
          /\ factory[1].methods = hist.created[1].methods
          /\ ~SharedState => factory = hist.created
          /\ \A s \in SvcIds : svcs[s].methods = factory[1].methods)
    /\ [][Len(inits') = Len(inits) + 1 =>
            /\ factory' = factory
            /\ Len(svcs') = Len(svcs) + 1
            /\ \A s \in SvcIds : svcs'[s] = svcs[s]
            /\ svcs'[Len(svcs')] = [handler |-> factory[1].handler,
                                    methods |-> factory[1].methods]
       ]_vars

\* two activations; the first service has dispatched a call, the second none
C8_Witness ==
    /\ Len(inits) >= 2
    /\ factory[1].methods = <<"GET", "POST">>
    /\ svcs[1].handler.n > svcs[2].handler.n

\* the handler outcome of call f is available and the caller keeps the future
Resolved(f) == f \in FutIds /\ futs[f].inner.ready /\ ~futs[f].dropped
\* call f has completed or its future was dropped
Settled(f) == f \in FutIds /\ (futs[f].st = "Done" \/ futs[f].dropped)

(* C9: a future whose handler outcome has resolved and that keeps being    *)
(* polled eventually completes (unless dropped): again and again every     *)
(* future whose outcome is there is settled, and being settled is for      *)
(* good, so none waits for ever; a completed future reported unit success; *)
(* and once complete it never changes again (it completes once).           *)
C9_EventuallyOkOnce ==
    /\ []<>(\A f \in FutIds : Resolved(f) => Settled(f))
    /\ [](\A f \in FutIds : futs[f].st = "Done" => futs[f].res = "ReadyOk")
    /\ [][\A f \in FutIds : futs[f].st = "Done" => futs'[f] = futs[f]]_vars

\* a future whose handler resolved later, to an error, has completed
C9_Witness ==
    \E f \in FutIds :
        /\ futs[f].st = "Done"
        /\ futs[f].inner.out = ErrOut("odd")
        /\ futs[f].res = "ReadyOk"

(* C10: a dropped future never reports completion and no line is written   *)
(* for it, whatever its handler outcome; its service stays Ready and later *)
(* calls on it complete as usual.                                          *)
C10_DropCancels ==
    \A f \in FutIds :
        futs[f].dropped =>
            /\ futs[f].res \in {"None", "NotReady"}
            /\ LinesOf(f) = {}
            /\ poll_ready(svcs[futs[f].svc]).async = "Ready"
            /\ \A g \in CallsOn(futs[f].svc) :
                (g > f /\ futs[g].st = "Done") =>
                    /\ futs[g].res = "ReadyOk"
                    /\ Cardinality(LinesOf(g)) =
                        IF futs[g].inner.out.tag = "Err" THEN 1 ELSE 0

\* a dropped future whose outcome, an error, was available; a later call
\* on the same service has completed
C10_Witness ==
    \E f, g \in FutIds :
        /\ futs[f].dropped
        /\ futs[f].inner.ready
        /\ futs[f].inner.out.tag = "Err"
        /\ g > f
        /\ futs[g].svc = futs[f].svc
        /\ futs[g].st = "Done"

\* the reading of a method list: empty accepts any verb, else membership
Accepts(methods, v) ==
    methods = <<>> \/ \E i \in 1..Len(methods) : methods[i] = v

\* the orderings of a sequence
Perms(q) ==
    { [i \in 1..Len(q) |-> q[p[i]]] :
        p \in { x \in [1..Len(q) -> 1..Len(q)] :
                  \A i, j \in 1..Len(q) : x[i] = x[j] => i = j } }

\* the verbs acceptance is asked for
ProbeVerbs == Methods \cup {"PATCH"}

(* C11: the list built by method() calls accepts every verb it was built   *)
(* with (the start's seed and every method() argument, on the builder and  *)
(* on the descriptor), and the same calls made in any other order give a   *)
(* list that accepts exactly the same verbs.                               *)
C11_AcceptsBuiltVerbs ==
    /\ builder # <<>> =>
        LET vs == Seed(hist.start) \o hist.bverbs IN
        /\ \A i \in 1..Len(vs) : Accepts(builder[1].methods, vs[i])
        /\ \A q \in Perms(vs) : \A v \in ProbeVerbs :
            Accepts(BuilderMethods(FramedRouteBuilder_new(hist.path), q).methods, v)
                <=> Accepts(builder[1].methods, v)
    /\ route # <<>> =>
        LET vs == AtTo \o hist.rverbs IN
        \A i \in 1..Len(vs) : Accepts(route[1].methods, vs[i])

\* a builder given two different verbs; it accepts both and not PATCH
C11_Witness ==
    /\ builder # <<>>
    /\ hist.start = "build"
    /\ hist.bverbs = <<"PUT", "GET">>
    /\ Accepts(builder[1].methods, "PUT")
    /\ Accepts(builder[1].methods, "GET")
    /\ ~Accepts(builder[1].methods, "PATCH")

\* service s as it was when call f was made on it: its handler had been
\* invoked once for each earlier call on s
SvcAtCall(f) ==
    [svcs[futs[f].svc] EXCEPT !.handler = [Handler0 EXCEPT !.n = @ + SeenBefore(f)]]

\* a request the method list accepts
AcceptedReq(methods) == [verb |-> IF methods = <<>> THEN "GET" ELSE methods[1]]

(* C12: dispatch never reads the method list.  Every call, whatever its    *)
(* verb, invoked the handler; a call whose verb the non-empty list does    *)
(* not hold got the future an accepted verb would have got, and completes  *)
(* with unit success and the lines of its outcome, with no rejection; and  *)
(* poll_ready answers the same whatever the method list.                   *)
C12_MethodsNotConsulted ==
    /\ \A s \in SvcIds :
        /\ svcs[s].handler.n = Handler0.n + SeenBy(s)
        /\ \A ms \in {<<>>, <<"PUT">>, <<"GET", "POST">>} :
            poll_ready([svcs[s] EXCEPT !.methods = ms]) = poll_ready(svcs[s])
    /\ \A f \in FutIds :
        ~Accepts(svcs[futs[f].svc].methods, futs[f].req.verb) =>
            LET pre == SvcAtCall(f)
                acc == call(pre, AcceptedReq(pre.methods))
            IN  /\ call(pre, futs[f].req) = acc
                /\ futs[f].inner.out = acc.future.inner.out
                /\ futs[f].res # "Err"
                /\ futs[f].st = "Done" =>
                    /\ futs[f].res = "ReadyOk"
                    /\ Cardinality(LinesOf(f)) =
                        IF futs[f].inner.out.tag = "Err" THEN 1 ELSE 0

\* a PATCH request dispatched by a service that lists GET and POST has
\* completed with the handler's success
C12_Witness ==
    \E f \in FutIds :
        /\ svcs[futs[f].svc].methods = <<"GET", "POST">>
        /\ futs[f].req.verb = "PATCH"
        /\ futs[f].st = "Done"
        /\ futs[f].inner.out = OkOut
        /\ futs[f].res = "ReadyOk"
        /\ svcs[futs[f].svc].handler.n = 1

(* C13: the handler is invoked once per call, inside call.  The step that  *)
(* returns a new future, not yet polled, has advanced the handler of the   *)
(* called service by one invocation (a clone that shares its state behind  *)
(* an Rc with it follows, no other does) and fixed the future's outcome as *)
(* the one that invocation gave; no other step (a poll, however often,     *)
(* the handler's future resolving, a drop, an activation) changes any      *)
(* existing service's handler, so the invocation is neither undone nor     *)
(* repeated.                                                               *)
C13_InvokedOnceInCall ==
    [][ /\ Len(futs') = Len(futs) + 1 =>
            LET f == Len(futs')
                s == futs'[f].svc
            IN  /\ svcs'[s].handler = Invoke(svcs[s].handler, futs'[f].req).handler
                /\ svcs'[s].handler.n = svcs[s].handler.n + 1
                /\ futs'[f].inner.out = HandlerRet(svcs[s].handler, futs'[f].req).out
                /\ futs'[f].res = "None"
                /\ futs'[f].st = "First"
                /\ \A t \in SvcIds \ {s} :
                    svcs'[t] = [svcs[t] EXCEPT !.handler = Synced(@, svcs'[s].handler)]
        /\ Len(futs') = Len(futs) =>
            \A s \in SvcIds : svcs'[s] = svcs[s]
      ]_vars

\* a service called twice: one future dropped before any poll, the other
\* polled while its handler's future was pending; the handler ran twice
C13_Witness ==
    \E s \in SvcIds : \E f, g \in CallsOn(s) :
        /\ futs[f].dropped /\ futs[f].res = "None"
        /\ futs[g].st = "First" /\ futs[g].res = "NotReady"
        /\ svcs[s].handler.n = Handler0.n + 2

====
